---- MODULE Spec2Model ----
(***************************************************************************)
(* State-machine model of the JNI bridge lib/src/main/cpp/jni.c: the       *)
(* stream-backed model loader (inputStreamRead / inputStreamEof /          *)
(* inputStreamClose), the process-wide capability cache (JNI_OnLoad /      *)
(* JNI_OnUnload), the entry points initContextFromInputStream,            *)
(* initContextFromAsset (with the asset-backed loader), freeContext and    *)
(* fullTranscribe.  The inference engine (whisper_init_with_params,        *)
(* whisper_free, whisper_full) is an external collaborator; it is          *)
(* modelled from the loader contract of the specification.                 *)
(***************************************************************************)
EXTENDS Integers, FiniteSets, Sequences, TLC

\* ------------------------------------------------------------------ bounds
\* StreamContext structs ever allocated in one behaviour.
MaxCtx == 1
\* Loader callbacks the engine issues within one initializer run.
MaxCalls == 2
\* Largest read_size the engine requests.
MaxRead == 2
\* Library loads (JNI_OnLoad calls) in one behaviour.
MaxLoads == 1
\* Assets ever opened by initContextFromAsset in one behaviour.
MaxAssets == 1

\* ------------------------------------------------------------- vocabulary
NULL == 0
Ctx == 1..MaxCtx
Assets == 1..MaxAssets
\* "main" is the managed thread that calls the entry points (always bound);
\* "worker" is an engine-owned native thread (unbound unless attached).
Threads == {"main", "worker"}
JavaThread == "main"

VARIABLES
    vm,                         \* the VM the process runs in: which JNI versions it knows
    g_vm,                       \* static JavaVM*   (NULL or 1)
    g_inputStreamClass,         \* static jclass    (NULL or 1)
    g_midInputStreamAvailable,  \* static jmethodID (NULL or 1)
    g_midInputStreamRead,       \* static jmethodID (NULL or 1)
    classRefs,                  \* live global references to the InputStream class
    libState,                   \* "unloaded" | "loaded" | "failed"
    loads,                      \* JNI_OnLoad calls so far
    heap,                       \* Ctx -> struct input_stream_context (+ allocation state)
    nextCtx,                    \* next address malloc hands out
    globalRefs,                 \* Ctx -> "none" | "live" | "deleted": the stream's global ref
    attached,                   \* Threads -> BOOLEAN: thread bound to the VM
    pending,                    \* Threads -> BOOLEAN: exception pending on the thread's JNIEnv
    streamPos,                  \* bytes the foreign stream of the running call has handed out
    liveBufs,                   \* live transient byte[] local references
    pc,                         \* "idle" | "engine" | "ret": position of the entry point
    cur,                        \* context of the running initContextFromInputStream
    calls,                      \* callbacks issued by the engine in this run
    engineResult,               \* what whisper_init_with_params returned (NULL or handle)
    engineCtx,                  \* Ctx -> "none" | "live" | "freed": whisper_context per loader
    handed,                     \* Ctx -> BOOLEAN: loader was passed to the engine initializer
    nfree,                      \* Ctx -> number of free() calls on the struct
    ndelete,                    \* Ctx -> number of DeleteGlobalRef calls on its stream ref
    nclose,                     \* Ctx -> number of inputStreamClose calls
    freedBy,                    \* Ctx -> "none" | "close" | "init": who freed the struct
    closePath,                  \* Ctx -> the exit path the last close on it took
    usedAfterClose,             \* Ctx -> BOOLEAN: read/eof ran on it after close
    lastRead,                   \* the inputStreamRead that returned in the last step
    lastClose,                  \* the inputStreamClose that returned in the last step
    lastTouch,                  \* the foreign-runtime touch a callback made in the last step
    lastRet,                    \* the entry-point return of the last step
    assetState,                 \* Assets -> "none" | "open" | "closed": the AAsset
    assetLeft,                  \* bytes the asset of the running call has left
    nextAsset,                  \* next AAsset AAssetManager_open hands out
    assetEngine,                \* Assets -> "none" | "live" | "freed": its whisper_context
    assetCloses,                \* Assets -> number of asset_close calls
    curAsset,                   \* asset of the running initContextFromAsset
    borrowed,                   \* buffers borrowed from the VM and not yet given back
    lastFull,                   \* the fullTranscribe call of the last step
    crashed                     \* the process aborted (an outcome of undefined behaviour)

statics == <<vm, g_vm, g_inputStreamClass, g_midInputStreamAvailable, g_midInputStreamRead,
             classRefs, libState, loads>>
memory  == <<heap, nextCtx, globalRefs>>
jvm     == <<attached, pending, streamPos, liveBufs>>
control == <<pc, cur, calls, engineResult, engineCtx, handed>>
counts  == <<nfree, ndelete, nclose, freedBy, closePath, usedAfterClose>>
observ  == <<lastRead, lastClose, lastTouch, lastRet>>
assets  == <<assetState, assetLeft, nextAsset, assetEngine, assetCloses, curAsset,
             borrowed>>
vars    == <<statics, memory, jvm, control, counts, observ, assets, lastFull, crashed>>

\* struct input_stream_context, zeroed, before malloc has produced it.
input_stream_context ==
    [mem |-> "unalloc", offset |-> 0, env |-> "none", input_stream |-> NULL,
     mid_available |-> NULL, mid_read |-> NULL]

NoRead  == [ctx |-> NULL, size |-> 0, ret |-> 0, before |-> 0, after |-> 0,
            fault |-> FALSE, pendingAfter |-> FALSE, alloc |-> FALSE, called |-> FALSE,
            n |-> 0, clean |-> FALSE, afterEnd |-> FALSE, released |-> 0]
NoClose == [ctx |-> NULL, thread |-> "none", path |-> "none", boundBefore |-> FALSE,
            boundAfter |-> FALSE, attachedHere |-> FALSE, detachedHere |-> FALSE,
            released |-> FALSE, freesBefore |-> 0, deletesBefore |-> 0]
NoTouch == [cb |-> "none", thread |-> "none", env |-> "none", raised |-> FALSE,
            ret |-> FALSE]
NoRet   == [fn |-> "none", value |-> NULL, ctx |-> NULL, engineCalled |-> FALSE,
            threw |-> FALSE, path |-> "none", log |-> "none"]
NoFull  == [handle |-> NULL, acquired |-> FALSE, fullCalled |-> FALSE, releases |-> 0,
            mode |-> "none", result |-> 0, timingsFreed |-> FALSE]

\* Everything but the VM.
InitProcess ==
    /\ g_vm = NULL
    /\ g_inputStreamClass = NULL
    /\ g_midInputStreamAvailable = NULL
    /\ g_midInputStreamRead = NULL
    /\ classRefs = 0
    /\ libState = "unloaded"
    /\ loads = 0
    /\ heap = [c \in Ctx |-> input_stream_context]
    /\ nextCtx = 1
    /\ globalRefs = [c \in Ctx |-> "none"]
    /\ attached = [t \in Threads |-> t = JavaThread]
    /\ pending = [t \in Threads |-> FALSE]
    /\ streamPos = 0
    /\ liveBufs = 0
    /\ pc = "idle"
    /\ cur = NULL
    /\ calls = 0
    /\ engineResult = NULL
    /\ engineCtx = [c \in Ctx |-> "none"]
    /\ handed = [c \in Ctx |-> FALSE]
    /\ nfree = [c \in Ctx |-> 0]
    /\ ndelete = [c \in Ctx |-> 0]
    /\ nclose = [c \in Ctx |-> 0]
    /\ freedBy = [c \in Ctx |-> "none"]
    /\ closePath = [c \in Ctx |-> "none"]
    /\ usedAfterClose = [c \in Ctx |-> FALSE]
    /\ lastRead = NoRead
    /\ lastClose = NoClose
    /\ lastTouch = NoTouch
    /\ lastRet = NoRet
    /\ assetState = [a \in Assets |-> "none"]
    /\ assetLeft = 0
    /\ nextAsset = 1
    /\ assetEngine = [a \in Assets |-> "none"]
    /\ assetCloses = [a \in Assets |-> 0]
    /\ curAsset = NULL
    /\ borrowed = 0
    /\ lastFull = NoFull
    /\ crashed = FALSE

\* A VM either knows JNI_VERSION_1_6 or does not, for as long as it lives.
Init == vm \in {"jni_1_6", "older"} /\ InitProcess

\* A VM whose GetEnv may report an unsupported version at any call.
InitAnyVM == vm = "any" /\ InitProcess

\* ------------------------------------------------------ the VM's interface
\* JavaVM::GetEnv(JNI_VERSION_1_6): the results the VM can give on thread t.
GetEnv(t) ==
    IF ~attached[t] THEN {"JNI_EDETACHED"}
    ELSE IF vm = "jni_1_6" THEN {"JNI_OK"}
    ELSE IF vm = "older" THEN {"JNI_EVERSION"}
    ELSE {"JNI_OK", "JNI_EVERSION"}

\* ----------------------------------------------------- JNI_OnLoad / OnUnload
\* step names the first step of JNI_OnLoad that fails ("ok": none does).
OnLoadSteps == {"findclass", "globalref", "mid_available", "mid_read", "ok"}

JNI_OnLoad(stat, step) ==
    /\ ~crashed /\ pc = "idle"
    /\ libState # "loaded" /\ loads < MaxLoads
    /\ loads' = loads + 1
    /\ g_vm' = 1
    /\ IF stat # "JNI_OK" \/ step = "findclass"
       THEN \* JNI_ERR before anything was cached
            /\ UNCHANGED <<g_inputStreamClass, g_midInputStreamAvailable,
                           g_midInputStreamRead, classRefs>>
            /\ libState' = "failed"
       ELSE IF step = "globalref"
       THEN \* NewGlobalRef returned NULL and was stored
            /\ g_inputStreamClass' = NULL
            /\ UNCHANGED <<g_midInputStreamAvailable, g_midInputStreamRead, classRefs>>
            /\ libState' = "failed"
       ELSE IF step = "mid_available"
       THEN /\ g_inputStreamClass' = NULL
            /\ g_midInputStreamAvailable' = NULL
            /\ UNCHANGED <<g_midInputStreamRead, classRefs>>
            /\ libState' = "failed"
       ELSE IF step = "mid_read"
       THEN /\ g_inputStreamClass' = NULL
            /\ g_midInputStreamAvailable' = NULL
            /\ g_midInputStreamRead' = NULL
            /\ UNCHANGED classRefs
            /\ libState' = "failed"
       ELSE /\ g_inputStreamClass' = 1
            /\ g_midInputStreamAvailable' = 1
            /\ g_midInputStreamRead' = 1
            /\ classRefs' = classRefs + 1
            /\ libState' = "loaded"
    /\ lastRead' = NoRead /\ lastClose' = NoClose /\ lastTouch' = NoTouch
    /\ lastRet' = NoRet
    /\ UNCHANGED <<vm, memory, jvm, control, counts, crashed>>
    /\ lastFull' = NoFull /\ UNCHANGED assets

JNI_OnUnload(stat) ==
    /\ ~crashed /\ pc = "idle"
    /\ libState = "loaded"
    /\ libState' = "unloaded"
    /\ IF stat # "JNI_OK"
       THEN UNCHANGED <<g_vm, g_inputStreamClass, g_midInputStreamAvailable,
                        g_midInputStreamRead, classRefs>>
       ELSE /\ classRefs' = IF g_inputStreamClass # NULL THEN classRefs - 1 ELSE classRefs
            /\ g_inputStreamClass' = NULL
            /\ g_midInputStreamAvailable' = NULL
            /\ g_midInputStreamRead' = NULL
            /\ g_vm' = NULL
    /\ lastRead' = NoRead /\ lastClose' = NoClose /\ lastTouch' = NoTouch
    /\ lastRet' = NoRet
    /\ UNCHANGED <<vm, loads, memory, jvm, control, counts, crashed>>
    /\ lastFull' = NoFull /\ UNCHANGED assets

\* free(is): the block is gone.  Its contents are indeterminate afterwards; the
\* model keeps the fields a stale read could still see and drops the offset,
\* which nothing reads again.
Freed(is) == [is EXCEPT !.mem = "freed", !.offset = 0]

\* ------------------------------------------------------- loader callbacks
\* Variants of the exception idiom: one that never looks, one that never clears.
CheckAndClear_Unseen(exc) == [seen |-> FALSE, pending |-> FALSE]
CheckAndClear_NoClear(exc) == [seen |-> exc, pending |-> exc]

\* The idiom "if (ExceptionCheck(env)) { ExceptionDescribe; ExceptionClear; }":
\* whether an exception was seen, and whether one is pending afterwards.
CheckAndClear(exc) == [seen |-> exc, pending |-> FALSE]

\* is->offset += result_bytes
OffsetAfter(offset, result_bytes) == offset + result_bytes

\* The eof callback (or the diagnostic probe) that returned in the last step
\* returned true.
EofReportedEnd == lastTouch.cb = "eof" /\ lastTouch.ret

\* The callback that returned in the last step reported the end of the data: an
\* eof that returned true, or a read that returned 0.
EndReported ==
    \/ EofReportedEnd
    \/ lastRead.ctx # NULL /\ lastRead.ret = 0

\* A variant of read that latches the end: once the end was reported it returns
\* 0 without asking the stream again.
ReadCallsStream_Latched(read_size, java_byte_array) ==
    read_size # 0 /\ java_byte_array # NULL /\ ~EndReported

\* CallIntMethod(read) is reached: past "if (read_size == 0) return 0" and
\* "if (java_byte_array == NULL) return 0", whatever earlier calls reported.
ReadCallsStream(read_size, java_byte_array) ==
    read_size # 0 /\ java_byte_array # NULL

\* The path inputStreamRead takes once the transient buffer exists.  seenCall /
\* seenCopy: ExceptionCheck was true after CallIntMethod(read) / after
\* GetByteArrayRegion; n: what the foreign read returned.
ReadPath(seenCall, n, seenCopy) ==
    IF seenCall THEN "read_fault"
    ELSE IF n > 0 THEN (IF seenCopy THEN "copy_fault" ELSE "copied")
    ELSE IF n = -1 THEN "eof"
    ELSE "zero"

ReadPaths == {"read_fault", "copy_fault", "copied", "eof", "zero"}

\* A variant that returns from the exception branch without giving the
\* buffer back.
DeleteLocalRefs_NotOnFault(path) == IF path = "read_fault" THEN 0 ELSE 1

\* DeleteLocalRef(env, java_byte_array) calls made on a path: the one in the
\* exception branch of the foreign read, or the one before the final return.
DeleteLocalRefs(path) == IF path \in ReadPaths THEN 1 ELSE 0

\* size_t inputStreamRead(void * ctx, void * output, size_t read_size), run on
\* thread t.  nbaOK: NewByteArray produced the transient buffer (it yields NULL,
\* with its exception pending, when the VM is out of memory or (jint)read_size is
\* negative); fault: the foreign read raised; n: what the foreign read returned;
\* crash: the abort outcome of calling JNI through another thread's JNIEnv or
\* with an exception already pending.
inputStreamRead(c, t, read_size, nbaOK, fault, n, crash) ==
    LET is        == heap[c]
        env       == is.env
        undefined == t # env \/ pending[env] \/ is.mem # "live"
        java_byte_array == IF nbaOK THEN 1 ELSE NULL
        called    == ReadCallsStream(read_size, java_byte_array)
        \* after CallIntMethod(read): an exception is pending if one was or one was raised
        afterCall == CheckAndClear(pending[env] \/ fault)
        \* GetByteArrayRegion(array, 0, n) raises when n exceeds the array's length
        afterCopy == CheckAndClear(n > read_size)
        result_bytes == IF afterCall.seen THEN 0
                        ELSE IF n > 0 THEN (IF afterCopy.seen THEN 0 ELSE n)
                        ELSE 0
        pendingAfter == IF afterCall.seen THEN afterCall.pending
                        ELSE IF n > 0 THEN afterCopy.pending
                        ELSE afterCall.pending
        \* bytes the foreign stream handed out in this call
        advance   == IF fault \/ n <= 0 THEN 0
                     ELSE IF n > read_size THEN read_size ELSE n
        path      == ReadPath(afterCall.seen, n, afterCopy.seen)
        touch     == [cb |-> "read", thread |-> t, env |-> env,
                      raised |-> called /\ fault, ret |-> FALSE]
        \* lastRead.clean: the foreign read handed bytes over with no exception
        \* pending before it or raised by it; lastRead.afterEnd: the call came
        \* right after an eof that returned true
        ret0      == [ctx |-> c, size |-> read_size, ret |-> 0,
                      before |-> is.offset, after |-> is.offset,
                      fault |-> FALSE, pendingAfter |-> pending[env],
                      alloc |-> FALSE, called |-> FALSE, n |-> 0,
                      clean |-> FALSE, afterEnd |-> EofReportedEnd, released |-> 0]
    IN
    /\ crash => (undefined /\ read_size # 0)
    /\ usedAfterClose' = [usedAfterClose EXCEPT ![c] = @ \/ is.mem # "live"]
    /\ IF read_size = 0
       THEN /\ lastRead' = ret0
            /\ lastTouch' = NoTouch
            /\ UNCHANGED <<heap, pending, streamPos, liveBufs, crashed>>
       ELSE IF crash
       THEN /\ crashed' = TRUE
            /\ lastTouch' = touch
            /\ lastRead' = NoRead
            /\ UNCHANGED <<heap, pending, streamPos, liveBufs>>
       ELSE IF ~called
       THEN \* return 0 before the foreign call; a failed NewByteArray has left
            \* its exception pending, a buffer that was allocated is given back
            /\ pending' = [pending EXCEPT ![env] = @ \/ ~nbaOK]
            /\ liveBufs' = (liveBufs + (IF nbaOK THEN 1 ELSE 0)) - (IF nbaOK THEN 1 ELSE 0)
            /\ lastRead' = [ret0 EXCEPT !.pendingAfter = pending'[env], !.alloc = nbaOK,
                                        !.released = IF nbaOK THEN 1 ELSE 0]
            /\ lastTouch' = touch
            /\ UNCHANGED <<heap, streamPos, crashed>>
       ELSE /\ streamPos' = streamPos + advance
            /\ pending' = [pending EXCEPT ![env] = pendingAfter]
            /\ liveBufs' = (liveBufs + 1) - DeleteLocalRefs(path)
            /\ heap' = [heap EXCEPT ![c].offset = OffsetAfter(@, result_bytes)]
            /\ lastRead' = [ctx |-> c, size |-> read_size, ret |-> result_bytes,
                            before |-> is.offset, after |-> heap'[c].offset,
                            fault |-> fault, pendingAfter |-> pending'[env],
                            alloc |-> TRUE, called |-> TRUE, n |-> n,
                            clean |-> ~pending[env] /\ ~fault /\ n > 0,
                            afterEnd |-> EofReportedEnd,
                            released |-> DeleteLocalRefs(path)]
            /\ lastTouch' = touch
            /\ UNCHANGED crashed

\* A variant of eof that finds out by reading one byte from the stream.
inputStreamEof_Consumes(c, t, fault, avail, crash) ==
    LET is        == heap[c]
        env       == is.env
        undefined == t # env \/ pending[env] \/ is.mem # "live"
    IN
    /\ crash => undefined
    /\ usedAfterClose' = [usedAfterClose EXCEPT ![c] = @ \/ is.mem # "live"]
    /\ heap' = heap
    /\ IF crash
       THEN /\ crashed' = TRUE
            /\ lastTouch' = [cb |-> "eof", thread |-> t, env |-> env,
                             raised |-> FALSE, ret |-> FALSE]
            /\ UNCHANGED <<pending, streamPos>>
       ELSE /\ pending' = [pending EXCEPT ![env] = @ \/ fault]
            /\ streamPos' = IF fault \/ avail <= 0 THEN streamPos ELSE streamPos + 1
            /\ lastTouch' = [cb |-> "eof", thread |-> t, env |-> env,
                             raised |-> fault, ret |-> avail <= 0]
            /\ UNCHANGED crashed

\* bool inputStreamEof(void * ctx), run on thread t.  fault: available() raised
\* (nothing checks or clears it, and the value CallIntMethod then returns is
\* unspecified); avail: the value CallIntMethod returned.  available() reports
\* without consuming, and the struct is only read.
inputStreamEof(c, t, fault, avail, crash) ==
    LET is        == heap[c]
        env       == is.env
        undefined == t # env \/ pending[env] \/ is.mem # "live"
    IN
    /\ crash => undefined
    /\ usedAfterClose' = [usedAfterClose EXCEPT ![c] = @ \/ is.mem # "live"]
    /\ heap' = heap
    /\ IF crash
       THEN /\ crashed' = TRUE
            /\ lastTouch' = [cb |-> "eof", thread |-> t, env |-> env,
                             raised |-> FALSE, ret |-> FALSE]
            /\ UNCHANGED <<pending, streamPos>>
       ELSE /\ pending' = [pending EXCEPT ![env] = @ \/ fault]
            /\ streamPos' = streamPos
            /\ lastTouch' = [cb |-> "eof", thread |-> t, env |-> env,
                             raised |-> fault, ret |-> avail <= 0]
            /\ UNCHANGED crashed

\* What a read of is->input_stream yields: the field while the struct is live,
\* anything the freed block may hold once it is not.
ReadInputStream(c) ==
    IF c \notin Ctx THEN {NULL}
    ELSE IF heap[c].mem = "live" THEN {heap[c].input_stream}
    ELSE {NULL, c}

\* The exit path inputStreamClose takes, decided by g_vm, GetEnv's result stat
\* and whether AttachCurrentThread returned 0.
ClosePath(gvm, stat, attachOK) ==
    IF gvm = NULL THEN "no_vm"
    ELSE IF stat = "JNI_EDETACHED"
         THEN (IF attachOK THEN "attached_here" ELSE "attach_failed")
    ELSE IF stat = "JNI_EVERSION" THEN "version"
    ELSE "ok"

\* Variants of close: one that never releases the reference, one that releases
\* it on every exit path, one that frees only where it has a binding, one that
\* never detaches.
CloseReleases_Never(path, seen) == FALSE
CloseReleases_AnyPath(path, seen) == seen # NULL
CloseFrees_OnlyWithBinding(path) == path \in {"attached_here", "ok"}
CloseDetaches_Never(path) == FALSE

\* DeleteGlobalRef(env, is->input_stream) is reached with a non-NULL reference.
CloseReleases(path, seen) == path \in {"attached_here", "ok"} /\ seen # NULL

\* free(is) is reached (on every exit path past the NULL check).
CloseFrees(path) == path \in {"no_vm", "attach_failed", "version", "attached_here", "ok"}

\* DetachCurrentThread is reached: if (attached_here).
CloseDetaches(path) == path = "attached_here"

\* void inputStreamClose(void * ctx), run on thread t.  seen: the value read from
\* is->input_stream; stat: GetEnv's result; attachOK: AttachCurrentThread
\* returned 0.
inputStreamClose(c, t, seen, stat, attachOK) ==
    LET path          == ClosePath(g_vm, stat, attachOK)
        attached_here == path = "attached_here"
        release       == CloseReleases(path, seen)
        frees         == CloseFrees(path)
        afterAttach   == IF attached_here THEN [attached EXCEPT ![t] = TRUE] ELSE attached
        afterDetach   == IF CloseDetaches(path) THEN [afterAttach EXCEPT ![t] = FALSE]
                         ELSE afterAttach
    IN
    IF c = NULL
    THEN /\ lastClose' = NoClose /\ lastTouch' = NoTouch
         /\ UNCHANGED <<heap, globalRefs, attached, nfree, ndelete, nclose, freedBy,
                        closePath>>
    ELSE /\ nclose' = [nclose EXCEPT ![c] = @ + 1]
         /\ closePath' = [closePath EXCEPT ![c] = path]
         /\ globalRefs' = IF release THEN [globalRefs EXCEPT ![seen] = "deleted"]
                          ELSE globalRefs
         /\ ndelete' = IF release THEN [ndelete EXCEPT ![seen] = @ + 1] ELSE ndelete
         /\ heap' = IF frees
                    THEN [heap EXCEPT ![c] =
                           Freed([@ EXCEPT !.input_stream = IF release THEN NULL ELSE @])]
                    ELSE [heap EXCEPT ![c].input_stream = IF release THEN NULL ELSE @]
         /\ nfree' = IF frees THEN [nfree EXCEPT ![c] = @ + 1] ELSE nfree
         /\ freedBy' = IF frees THEN [freedBy EXCEPT ![c] = "close"] ELSE freedBy
         /\ attached' = afterDetach
         /\ lastTouch' = IF release
                         THEN [cb |-> "close", thread |-> t, env |-> t,
                               raised |-> FALSE, ret |-> FALSE]
                         ELSE NoTouch
         /\ lastClose' = [ctx |-> c, thread |-> t, path |-> path,
                          boundBefore |-> attached[t], boundAfter |-> attached'[t],
                          attachedHere |-> attached_here,
                          detachedHere |-> CloseDetaches(path),
                          released |-> release,
                          freesBefore |-> nfree[c], deletesBefore |-> ndelete[c]]

\* ------------------------------------------------------------- the engine
\* whisper_init_with_params pulling from the loader: one read callback.
EngineRead(t, read_size, nbaOK, fault, n, crash) ==
    /\ ~crashed /\ pc = "engine" /\ calls < MaxCalls
    /\ heap[cur].mem = "live"
    /\ calls' = calls + 1
    /\ inputStreamRead(cur, t, read_size, nbaOK, fault, n, crash)
    /\ UNCHANGED <<statics, nextCtx, globalRefs, attached, pc, cur, engineResult,
                   engineCtx, handed, nfree, ndelete, nclose, freedBy, closePath>>
    /\ lastClose' = NoClose /\ lastRet' = NoRet
    /\ lastFull' = NoFull /\ UNCHANGED assets

\* whisper_init_with_params pulling from the loader: one eof callback.
EngineEof(t, fault, avail, crash) ==
    /\ ~crashed /\ pc = "engine" /\ calls < MaxCalls
    /\ heap[cur].mem = "live"
    /\ calls' = calls + 1
    /\ inputStreamEof(cur, t, fault, avail, crash)
    /\ UNCHANGED <<statics, nextCtx, globalRefs, attached, liveBufs, pc, cur,
                   engineResult, engineCtx, handed, nfree, ndelete, nclose, freedBy,
                   closePath>>
    /\ lastRead' = NoRead /\ lastClose' = NoClose /\ lastRet' = NoRet
    /\ lastFull' = NoFull /\ UNCHANGED assets

\* whisper_init_with_params succeeds: the context keeps the loader for teardown.
EngineSucceed ==
    /\ ~crashed /\ pc = "engine"
    /\ pc' = "ret"
    /\ engineResult' = cur
    /\ engineCtx' = [engineCtx EXCEPT ![cur] = "live"]
    /\ lastRead' = NoRead /\ lastClose' = NoClose /\ lastTouch' = NoTouch
    /\ lastRet' = NoRet
    /\ UNCHANGED <<statics, memory, jvm, cur, calls, handed, counts, crashed>>
    /\ lastFull' = NoFull /\ UNCHANGED assets

\* whisper_init_with_params fails: it invokes loader.close, then returns NULL.
EngineFail(t, seen, stat, attachOK) ==
    /\ ~crashed /\ pc = "engine"
    /\ pc' = "ret"
    /\ engineResult' = NULL
    /\ inputStreamClose(cur, t, seen, stat, attachOK)
    /\ UNCHANGED <<statics, nextCtx, pending, streamPos, liveBufs, cur, calls,
                   engineCtx, handed, usedAfterClose, crashed>>
    /\ lastRead' = NoRead /\ lastRet' = NoRet
    /\ lastFull' = NoFull /\ UNCHANGED assets

\* whisper_free: tears the context down and invokes the retained loader.close.
whisper_free(h, t, seen, stat, attachOK) ==
    /\ engineCtx' = [engineCtx EXCEPT ![h] = "freed"]
    /\ inputStreamClose(h, t, seen, stat, attachOK)

\* ----------------------------------------------------------- entry points
\* A variant that goes on with whatever NewGlobalRef returned.
RefAcquired_Unchecked(ref) == TRUE

\* if (inp_ctx_ptr->input_stream == NULL) { ... return 0 }: the construction
\* goes on only with a reference.
RefAcquired(ref) == ref # NULL

\* A variant that returns 0 without giving the struct back.
AfterRefFailure_Leaks(is) == [is EXCEPT !.mem = "live"]

\* free(inp_ctx_ptr) on the failure of NewGlobalRef.
AfterRefFailure(is) == Freed(is)

\* A variant of the entry point that trusts the cache without looking at it.
CacheReady_Unchecked == TRUE

\* The guard of initContextFromInputStream: the stream class and both method
\* IDs have been cached by JNI_OnLoad.
CacheReady ==
    /\ g_inputStreamClass # NULL
    /\ g_midInputStreamAvailable # NULL
    /\ g_midInputStreamRead # NULL

\* initContextFromInputStream up to and including the call of
\* whisper_init_with_params.  mallocOK / refOK: malloc and NewGlobalRef
\* succeeded; probeFault: available() raised in the diagnostic eof probe;
\* avail: what available() returned there.
initContextFromInputStream(mallocOK, refOK, probeFault, avail) ==
    LET c   == nextCtx
        env == JavaThread
        \* what NewGlobalRef(env, input_stream_param) returned
        ref == IF refOK THEN c ELSE NULL
        ret0 == [fn |-> "init", value |-> NULL, ctx |-> NULL, engineCalled |-> FALSE,
                 threw |-> FALSE, path |-> "cache", log |-> "warn"]
    IN
    /\ ~crashed /\ pc = "idle"
    /\ nextCtx <= MaxCtx
    /\ IF ~CacheReady
       THEN /\ lastRet' = ret0
            /\ lastTouch' = NoTouch
            /\ UNCHANGED <<memory, jvm, control, counts>>
       ELSE IF ~mallocOK
       THEN /\ lastRet' = [ret0 EXCEPT !.path = "malloc"]
            /\ lastTouch' = NoTouch
            /\ UNCHANGED <<memory, jvm, control, counts>>
       ELSE IF ~RefAcquired(ref)
       THEN \* NewGlobalRef returned NULL: free(inp_ctx_ptr), return 0
            /\ heap' = [heap EXCEPT ![c] = AfterRefFailure([@ EXCEPT !.env = env])]
            /\ nextCtx' = c + 1
            /\ nfree' = [nfree EXCEPT ![c] = @ + 1]
            /\ freedBy' = [freedBy EXCEPT ![c] = "init"]
            /\ lastRet' = [ret0 EXCEPT !.ctx = c, !.path = "globalref"]
            /\ lastTouch' = NoTouch
            /\ UNCHANGED <<globalRefs, jvm, control, ndelete, nclose, closePath,
                           usedAfterClose>>
       ELSE /\ heap' = [heap EXCEPT ![c] =
                          [mem |-> "live", offset |-> 0, env |-> env, input_stream |-> ref,
                           mid_available |-> g_midInputStreamAvailable,
                           mid_read |-> g_midInputStreamRead]]
            /\ nextCtx' = c + 1
            /\ globalRefs' = IF ref # NULL THEN [globalRefs EXCEPT ![c] = "live"]
                             ELSE globalRefs
            \* the diagnostic probe: loader.eof(loader.context) on the calling thread
            /\ pending' = [pending EXCEPT ![env] = @ \/ probeFault]
            /\ lastTouch' = [cb |-> "eof", thread |-> JavaThread, env |-> env,
                             raised |-> probeFault, ret |-> avail <= 0]
            \* whisper_init_with_params(&loader, params) is entered
            /\ pc' = "engine"
            /\ cur' = c
            /\ calls' = 0
            /\ handed' = [handed EXCEPT ![c] = TRUE]
            /\ lastRet' = NoRet
            /\ streamPos' = 0
            /\ UNCHANGED <<attached, liveBufs, engineResult, engineCtx,
                           nfree, ndelete, nclose, freedBy, closePath, usedAfterClose>>
    /\ lastRead' = NoRead /\ lastClose' = NoClose
    /\ UNCHANGED <<statics, crashed>>
    /\ lastFull' = NoFull /\ UNCHANGED assets

\* A variant of the return path that probes loader.eof once more after the
\* engine initializer has returned.
initContextReturn_ProbesAgain ==
    /\ ~crashed /\ pc = "ret"
    /\ pc' = "idle"
    /\ cur' = NULL
    /\ inputStreamEof(cur, JavaThread, FALSE, 0, FALSE)
    /\ lastRet' = [fn |-> "init", value |-> engineResult, ctx |-> cur,
                   engineCalled |-> TRUE, threw |-> pending[JavaThread],
                   path |-> "engine",
                   log |-> IF engineResult = NULL THEN "warn" ELSE "info"]
    /\ calls' = 0
    /\ engineResult' = NULL
    /\ lastRead' = NoRead /\ lastClose' = NoClose
    /\ UNCHANGED <<statics, nextCtx, globalRefs, attached, liveBufs, engineCtx, handed,
                   nfree, ndelete, nclose, freedBy, closePath>>
    /\ lastFull' = NoFull /\ UNCHANGED assets

\* A variant of the return path that cleans the context up itself when the
\* engine initializer has failed.
initContextReturn_FreesOnFailure ==
    /\ ~crashed /\ pc = "ret"
    /\ pc' = "idle"
    /\ cur' = NULL
    /\ lastRet' = [fn |-> "init", value |-> engineResult, ctx |-> cur,
                   engineCalled |-> TRUE, threw |-> pending[JavaThread],
                   path |-> "engine",
                   log |-> IF engineResult = NULL THEN "warn" ELSE "info"]
    /\ pending' = [pending EXCEPT ![JavaThread] = FALSE]
    /\ calls' = 0
    /\ engineResult' = NULL
    /\ streamPos' = 0
    /\ heap' = IF engineResult = NULL THEN [heap EXCEPT ![cur] = Freed(@)] ELSE heap
    /\ nfree' = IF engineResult = NULL THEN [nfree EXCEPT ![cur] = @ + 1] ELSE nfree
    /\ UNCHANGED <<statics, nextCtx, globalRefs, attached, liveBufs, engineCtx, handed,
                   ndelete, nclose, freedBy, closePath, usedAfterClose, crashed>>
    /\ lastRead' = NoRead /\ lastClose' = NoClose /\ lastTouch' = NoTouch
    /\ lastFull' = NoFull /\ UNCHANGED assets

\* initContextFromInputStream after whisper_init_with_params has returned.
initContextReturn ==
    /\ ~crashed /\ pc = "ret"
    /\ pc' = "idle"
    /\ cur' = NULL
    /\ lastRet' = [fn |-> "init", value |-> engineResult, ctx |-> cur,
                   engineCalled |-> TRUE, threw |-> pending[JavaThread],
                   path |-> "engine",
                   log |-> IF engineResult = NULL THEN "warn" ELSE "info"]
    \* an exception still pending is raised in the managed caller on return
    /\ pending' = [pending EXCEPT ![JavaThread] = FALSE]
    \* the call's locals are gone
    /\ calls' = 0
    /\ engineResult' = NULL
    /\ streamPos' = 0
    /\ UNCHANGED <<statics, memory, attached, liveBufs,
                   engineCtx, handed, counts, crashed>>
    /\ lastRead' = NoRead /\ lastClose' = NoClose /\ lastTouch' = NoTouch
    /\ lastFull' = NoFull /\ UNCHANGED assets

\* The handles the managed caller may pass to freeContext: 0 or a live one.
Handles == {NULL} \cup {c \in Ctx : engineCtx[c] = "live"}

\* The highest level freeContext itself logs at: LOGW on the null handle, LOGI
\* around whisper_free.
FreeLogLevel(h) == IF h = NULL THEN "warn" ELSE "info"

\* Variants of freeContext: one that returns before whisper_free on every
\* handle, one that passes every handle on.
FreeReachesEngine_Never(h) == FALSE
FreeReachesEngine_Always(h) == TRUE

\* if (context_ptr_long == 0L) return;  -- whisper_free is reached otherwise.
FreeReachesEngine(h) == h # NULL

\* freeContext(context_ptr_long); the engine runs the loader's close on thread t.
freeContext(h, t, seen, stat, attachOK) ==
    /\ ~crashed /\ pc = "idle"
    /\ IF ~FreeReachesEngine(h)
       THEN /\ lastClose' = NoClose /\ lastTouch' = NoTouch
            /\ UNCHANGED <<heap, globalRefs, attached, nfree, ndelete, nclose, freedBy,
                           closePath, engineCtx>>
       ELSE whisper_free(h, t, seen, stat, attachOK)
    /\ lastRet' = [fn |-> "free", value |-> NULL, ctx |-> h,
                   engineCalled |-> FreeReachesEngine(h), threw |-> FALSE,
                   path |-> "free", log |-> FreeLogLevel(h)]
    /\ UNCHANGED <<statics, nextCtx, pending, streamPos, liveBufs, pc, cur, calls,
                   engineResult, handed, usedAfterClose, crashed>>
    /\ lastRead' = NoRead
    /\ lastFull' = NoFull /\ UNCHANGED assets

\* ------------------------------------------------------------ specification
\* The outcomes of one read callback that differ: a crash decides everything, a
\* failed NewByteArray makes the foreign read's outcome moot, a raised fault
\* its return value.
ReadOutcomes(read_size) ==
    {o \in [nbaOK : BOOLEAN, fault : BOOLEAN, n : -1..(read_size + 1), crash : BOOLEAN] :
        /\ (read_size = 0 \/ o.crash \/ ~o.nbaOK) => (~o.fault /\ o.n = 0)
        /\ (read_size = 0 \/ o.crash) => o.nbaOK
        /\ o.fault => o.n = 0}

\* What available() may report: nothing, or some bytes.
AvailOutcomes == 0..1

\* The outcomes of one close callback on thread t for context c that differ.
CloseOutcomes(c, t) ==
    {o \in [seen : ReadInputStream(c), stat : GetEnv(t), attachOK : BOOLEAN] :
        (o.stat # "JNI_EDETACHED" \/ g_vm = NULL) => o.attachOK}

Next ==
    \/ \E stat \in GetEnv(JavaThread), step \in OnLoadSteps :
          /\ (stat # "JNI_OK" => step = "ok")
          /\ JNI_OnLoad(stat, step)
    \/ \E stat \in GetEnv(JavaThread) : JNI_OnUnload(stat)
    \/ \E mallocOK, refOK, probeFault \in BOOLEAN, avail \in AvailOutcomes :
          initContextFromInputStream(mallocOK, refOK, probeFault, avail)
    \/ \E t \in Threads, read_size \in 0..MaxRead :
          \E o \in ReadOutcomes(read_size) :
             EngineRead(t, read_size, o.nbaOK, o.fault, o.n, o.crash)
    \/ \E t \in Threads, fault, crash \in BOOLEAN, avail \in AvailOutcomes :
          EngineEof(t, fault, avail, crash)
    \/ EngineSucceed
    \/ \E t \in Threads : \E o \in CloseOutcomes(cur, t) :
          EngineFail(t, o.seen, o.stat, o.attachOK)
    \/ initContextReturn
    \/ \E h \in Handles, t \in Threads : \E o \in CloseOutcomes(h, t) :
          freeContext(h, t, o.seen, o.stat, o.attachOK)

Spec == Init /\ [][Next]_vars

\* A caller that invokes loader.close once more on a context pointer that close
\* has already run on.  A second free of the block either aborts in the
\* allocator or goes unnoticed.
CloseAgain(c, t, seen, stat, attachOK, crash) ==
    /\ ~crashed /\ pc = "idle"
    /\ nclose[c] = 1
    /\ inputStreamClose(c, t, seen, stat, attachOK)
    /\ crashed' = crash
    /\ lastRead' = NoRead /\ lastRet' = NoRet
    /\ UNCHANGED <<statics, nextCtx, pending, streamPos, liveBufs, control,
                   usedAfterClose>>
    /\ lastFull' = NoFull /\ UNCHANGED assets

NextReclose ==
    \/ Next
    \/ \E c \in Ctx, t \in Threads, crash \in BOOLEAN : \E o \in CloseOutcomes(c, t) :
          CloseAgain(c, t, o.seen, o.stat, o.attachOK, crash)

SpecReclose == Init /\ [][NextReclose]_vars

\* The same program in a VM whose binding query is unconstrained.
SpecAnyVM == InitAnyVM /\ [][Next]_vars

\* ------------------------------------------------- the asset-backed loader
\* asset_read: AAsset_read(asset, output, read_size).  r is what AAsset_read
\* returned: the bytes read, 0 at the end, negative on error (it reaches the
\* engine converted to size_t).
asset_read(a, read_size, r) ==
    assetLeft' = assetLeft - (IF r > 0 THEN r ELSE 0)

\* asset_is_eof: AAsset_getRemainingLength64(asset) <= 0.
asset_is_eof(a) == assetLeft <= 0

\* asset_close: AAsset_close(asset).
asset_close(a) ==
    /\ assetState' = [assetState EXCEPT ![a] = "closed"]
    /\ assetCloses' = [assetCloses EXCEPT ![a] = @ + 1]

\* whisper_init_with_params pulling from the asset loader: one read callback.
AssetEngineRead(read_size, r) ==
    /\ ~crashed /\ pc = "asset" /\ calls < MaxCalls
    /\ calls' = calls + 1
    /\ asset_read(curAsset, read_size, r)
    /\ UNCHANGED <<statics, memory, jvm, pc, cur, engineResult, engineCtx, handed,
                   counts, assetState, nextAsset, assetEngine, assetCloses, curAsset,
                   borrowed, crashed>>
    /\ lastRead' = NoRead /\ lastClose' = NoClose /\ lastTouch' = NoTouch
    /\ lastRet' = NoRet /\ lastFull' = NoFull

\* whisper_init_with_params pulling from the asset loader: one eof callback.
AssetEngineEof ==
    /\ ~crashed /\ pc = "asset" /\ calls < MaxCalls
    /\ calls' = calls + 1
    /\ asset_is_eof(curAsset) \in BOOLEAN
    /\ UNCHANGED <<statics, memory, jvm, pc, cur, engineResult, engineCtx, handed,
                   counts, assets, crashed>>
    /\ lastRead' = NoRead /\ lastClose' = NoClose /\ lastTouch' = NoTouch
    /\ lastRet' = NoRet /\ lastFull' = NoFull

\* whisper_init_with_params succeeds on the asset loader and keeps it.
AssetEngineSucceed ==
    /\ ~crashed /\ pc = "asset"
    /\ pc' = "asset_ret"
    /\ engineResult' = MaxCtx + curAsset
    /\ assetEngine' = [assetEngine EXCEPT ![curAsset] = "live"]
    /\ UNCHANGED <<statics, memory, jvm, cur, calls, engineCtx, handed, counts,
                   assetState, assetLeft, nextAsset, assetCloses, curAsset, borrowed,
                   crashed>>
    /\ lastRead' = NoRead /\ lastClose' = NoClose /\ lastTouch' = NoTouch
    /\ lastRet' = NoRet /\ lastFull' = NoFull

\* whisper_init_with_params fails on the asset loader: it invokes loader.close.
AssetEngineFail ==
    /\ ~crashed /\ pc = "asset"
    /\ pc' = "asset_ret"
    /\ engineResult' = NULL
    /\ asset_close(curAsset)
    /\ UNCHANGED <<statics, memory, jvm, cur, calls, engineCtx, handed, counts,
                   assetLeft, nextAsset, assetEngine, curAsset, borrowed, crashed>>
    /\ lastRead' = NoRead /\ lastClose' = NoClose /\ lastTouch' = NoTouch
    /\ lastRet' = NoRet /\ lastFull' = NoFull

\* A variant that builds the loader on whatever AAssetManager_open returned.
AssetOpened_Unchecked(asset) == TRUE

\* if (!asset) { ... return NULL; }
AssetOpened(asset) == asset # NULL

\* initContextFromAsset with whisper_init_from_asset, up to and including the
\* call of whisper_init_with_params.  utfOK: GetStringUTFChars produced the path
\* (it yields NULL with an OutOfMemoryError pending otherwise, and the NULL path
\* is then printed and opened: crash is the abort outcome of that); openOK:
\* AAssetManager_open found the asset; len: the asset's length.
initContextFromAsset(utfOK, openOK, len, crash) ==
    LET asset == IF utfOK /\ openOK THEN nextAsset ELSE NULL
        ret0  == [fn |-> "asset", value |-> NULL, ctx |-> NULL, engineCalled |-> FALSE,
                  threw |-> ~utfOK, path |-> "open_failed", log |-> "warn"]
    IN
    /\ ~crashed /\ pc = "idle"
    /\ nextAsset <= MaxAssets
    /\ crash => ~utfOK
    /\ IF crash
       THEN /\ crashed' = TRUE
            /\ lastRet' = NoRet
            /\ UNCHANGED <<pc, calls, engineResult, assets>>
       ELSE IF ~AssetOpened(asset)
       THEN \* return NULL; ReleaseStringUTFChars; return 0
            /\ lastRet' = ret0
            /\ borrowed' = (borrowed + (IF utfOK THEN 1 ELSE 0)) - (IF utfOK THEN 1 ELSE 0)
            /\ UNCHANGED <<pc, calls, engineResult, assetState, assetLeft, nextAsset,
                           assetEngine, assetCloses, curAsset, crashed>>
       ELSE /\ assetState' = IF asset # NULL THEN [assetState EXCEPT ![asset] = "open"]
                             ELSE assetState
            /\ nextAsset' = IF asset # NULL THEN nextAsset + 1 ELSE nextAsset
            /\ assetLeft' = len
            /\ curAsset' = asset
            /\ borrowed' = borrowed + 1
            /\ pc' = "asset"
            /\ calls' = 0
            /\ lastRet' = NoRet
            /\ UNCHANGED <<engineResult, assetEngine, assetCloses, crashed>>
    /\ UNCHANGED <<statics, memory, jvm, cur, engineCtx, handed, counts>>
    /\ lastRead' = NoRead /\ lastClose' = NoClose /\ lastTouch' = NoTouch
    /\ lastFull' = NoFull

\* initContextFromAsset after whisper_init_with_params has returned:
\* ReleaseStringUTFChars, return (jlong) context.
initContextFromAssetReturn ==
    /\ ~crashed /\ pc = "asset_ret"
    /\ pc' = "idle"
    /\ curAsset' = NULL
    /\ borrowed' = borrowed - 1
    /\ lastRet' = [fn |-> "asset", value |-> engineResult, ctx |-> curAsset,
                   engineCalled |-> TRUE, threw |-> FALSE, path |-> "asset_engine",
                   log |-> "info"]
    /\ calls' = 0
    /\ engineResult' = NULL
    /\ assetLeft' = 0
    /\ UNCHANGED <<statics, memory, jvm, cur, engineCtx, handed, counts, assetState,
                   nextAsset, assetEngine, assetCloses, crashed>>
    /\ lastRead' = NoRead /\ lastClose' = NoClose /\ lastTouch' = NoTouch
    /\ lastFull' = NoFull

\* freeContext on the handle of an asset-backed context: whisper_free tears it
\* down and invokes the retained asset_close.
freeAssetContext(a) ==
    /\ ~crashed /\ pc = "idle"
    /\ assetEngine[a] = "live"
    /\ assetEngine' = [assetEngine EXCEPT ![a] = "freed"]
    /\ asset_close(a)
    /\ lastRet' = [fn |-> "free", value |-> NULL, ctx |-> MaxCtx + a,
                   engineCalled |-> FreeReachesEngine(MaxCtx + a), threw |-> FALSE,
                   path |-> "free", log |-> FreeLogLevel(MaxCtx + a)]
    /\ UNCHANGED <<statics, memory, jvm, control, counts, assetLeft, nextAsset,
                   curAsset, borrowed, crashed>>
    /\ lastRead' = NoRead /\ lastClose' = NoClose /\ lastTouch' = NoTouch
    /\ lastFull' = NoFull

\* ------------------------------------------------------------ fullTranscribe
\* The handles the managed caller may pass to fullTranscribe: 0 or a live one
\* of either kind.
TranscribeHandles == Handles \cup {MaxCtx + a : a \in {x \in Assets : assetEngine[x] = "live"}}

\* if (context == NULL) {...return;}  if (audio_data_arr == NULL) {...return;}
\* -- whisper_full is reached otherwise.
TranscribeReachesEngine(context, arr) == context # NULL /\ arr # NULL

\* A variant that forgets the array when it aborts on a null handle.
ReleasesArray_OnlyAfterEngine(context, arr) == context # NULL /\ arr # NULL

\* ReleaseFloatArrayElements is reached: in the null-handle abort when the array
\* was acquired, never in the null-array abort, always after whisper_full.
ReleasesArray(context, arr) ==
    IF context = NULL THEN arr # NULL
    ELSE IF arr = NULL THEN FALSE
    ELSE TRUE

\* The mode every ReleaseFloatArrayElements call passes.
ReleaseMode == "JNI_ABORT"

\* fullTranscribe(context_ptr, num_threads, audio_data).  arrOK:
\* GetFloatArrayElements produced the samples; oom: its failure left an
\* OutOfMemoryError pending (GetArrayLength is then called with it pending: crash
\* is the abort outcome of that); result: what whisper_full returned; timings:
\* whisper_get_timings returned a struct.
fullTranscribe(h, arrOK, oom, result, timings, crash) ==
    LET arr      == IF arrOK THEN 1 ELSE NULL
        engine   == TranscribeReachesEngine(h, arr)
        releases == IF ReleasesArray(h, arr) THEN 1 ELSE 0
    IN
    /\ ~crashed /\ pc = "idle"
    /\ oom => ~arrOK
    /\ crash => oom
    /\ IF crash
       THEN /\ crashed' = TRUE
            /\ lastFull' = NoFull /\ lastRet' = NoRet
            /\ UNCHANGED borrowed
       ELSE /\ borrowed' = (borrowed + (IF arrOK THEN 1 ELSE 0)) - releases
            /\ lastFull' = [handle |-> h, acquired |-> arrOK, fullCalled |-> engine,
                            releases |-> releases,
                            mode |-> IF releases > 0 THEN ReleaseMode ELSE "none",
                            result |-> IF engine THEN result ELSE 0,
                            timingsFreed |-> engine /\ timings]
            /\ lastRet' = [fn |-> "transcribe", value |-> NULL, ctx |-> h,
                           engineCalled |-> engine, threw |-> oom,
                           path |-> "transcribe",
                           log |-> IF ~engine \/ result # 0 THEN "error"
                                   ELSE IF ~timings THEN "warn" ELSE "info"]
            /\ UNCHANGED crashed
    /\ UNCHANGED <<statics, memory, jvm, control, counts, assetState, assetLeft,
                   nextAsset, assetEngine, assetCloses, curAsset>>
    /\ lastRead' = NoRead /\ lastClose' = NoClose /\ lastTouch' = NoTouch

\* The outcomes of one fullTranscribe call on handle h that differ.
TranscribeOutcomes(h) ==
    {o \in [arrOK : BOOLEAN, oom : BOOLEAN, result : {0, 1}, timings : BOOLEAN,
            crash : BOOLEAN] :
        /\ o.oom => ~o.arrOK
        /\ o.crash => o.oom
        /\ (h = NULL \/ ~o.arrOK) => (o.result = 0 /\ ~o.timings)}

\* The bridge without its stream-backed loader: library load and unload, the
\* asset path, freeContext and fullTranscribe.
NextNative ==
    \/ \E stat \in GetEnv(JavaThread), step \in OnLoadSteps :
          /\ (stat # "JNI_OK" => step = "ok")
          /\ JNI_OnLoad(stat, step)
    \/ \E stat \in GetEnv(JavaThread) : JNI_OnUnload(stat)
    \/ \E utfOK, openOK, crash \in BOOLEAN, len \in 0..MaxRead :
          /\ (~utfOK => (openOK /\ len = 0))
          /\ (~openOK => len = 0)
          /\ initContextFromAsset(utfOK, openOK, len, crash)
    \/ \E read_size \in 0..MaxRead : \E r \in -1..read_size :
          /\ r <= assetLeft
          /\ AssetEngineRead(read_size, r)
    \/ AssetEngineEof
    \/ AssetEngineSucceed
    \/ AssetEngineFail
    \/ initContextFromAssetReturn
    \/ \E a \in Assets : freeAssetContext(a)
    \/ \E h \in TranscribeHandles : \E o \in TranscribeOutcomes(h) :
          fullTranscribe(h, o.arrOK, o.oom, o.result, o.timings, o.crash)

SpecNative == Init /\ [][NextNative]_vars

\* --------------------------------------------------------------- properties
\* The run of initContextFromInputStream that has just returned 0 after the
\* engine initializer failed.
InitFailedReturn ==
    lastRet.fn = "init" /\ lastRet.engineCalled /\ lastRet.value = NULL

\* freeContext has just completed on a non-zero handle.
FreeReturn == lastRet.fn = "free" /\ lastRet.ctx # NULL

\* close obtained a valid binding for its thread.
HadBinding(path) == path \in {"ok", "attached_here"}

\* C1, as stated: whenever initContextFromInputStream returns 0 after the engine
\* initializer failed, close has already run on the run's StreamContext and its
\* foreign global reference has been released.
C1_Original ==
    InitFailedReturn =>
        /\ nclose[lastRet.ctx] >= 1
        /\ globalRefs[lastRet.ctx] = "deleted"

\* C1, amended: whenever initContextFromInputStream returns 0 after the engine
\* initializer failed, close has already run once on the run's StreamContext and
\* freed the struct; the foreign global reference has been released exactly when
\* that close obtained a valid binding for its thread, and is still held (leaked)
\* when attaching failed or the binding query reported an unsupported version.
C1_CloseBeforeFailure ==
    InitFailedReturn =>
        /\ nclose[lastRet.ctx] = 1
        /\ heap[lastRet.ctx].mem = "freed"
        /\ closePath[lastRet.ctx] \in {"ok", "attached_here", "attach_failed", "version"}
        /\ HadBinding(closePath[lastRet.ctx]) =>
               (globalRefs[lastRet.ctx] = "deleted" /\ ndelete[lastRet.ctx] = 1)
        /\ ~HadBinding(closePath[lastRet.ctx]) =>
               (globalRefs[lastRet.ctx] = "live" /\ ndelete[lastRet.ctx] = 0)

C1_Witness ==
    /\ InitFailedReturn
    /\ nclose[lastRet.ctx] = 1
    /\ globalRefs[lastRet.ctx] = "deleted"

\* C2: every StreamContext handed to the engine is closed exactly once: never
\* twice, once by the time a failed initialization returns 0, and once by the
\* time freeContext on the returned handle completes (and not before it).
C2_ClosedExactlyOnce ==
    /\ \A c \in Ctx : nclose[c] <= 1
    /\ \A c \in Ctx : nclose[c] = 1 => handed[c]
    /\ InitFailedReturn => nclose[lastRet.ctx] = 1
    /\ FreeReturn => nclose[lastRet.ctx] = 1
    /\ \A c \in Ctx : (handed[c] /\ pc = "idle") =>
          nclose[c] = (IF engineCtx[c] = "live" THEN 0 ELSE 1)

C2_Witness ==
    /\ FreeReturn
    /\ handed[lastRet.ctx]
    /\ engineCtx[lastRet.ctx] = "freed"
    /\ nclose[lastRet.ctx] = 1

\* C3: a second close on the same context pointer performs no free and no
\* reference release: no struct is freed twice and no reference deleted twice.
C3_SecondCloseIsNoop ==
    \A c \in Ctx : nclose[c] >= 2 => (nfree[c] <= 1 /\ ndelete[c] <= 1)

\* C4, as stated: a struct is freed at most once and only inside close.
C4_Original ==
    \A c \in Ctx : nfree[c] <= 1 /\ freedBy[c] \in {"none", "close"}

\* C4, amended: a StreamContext struct is never freed twice; once it has been
\* handed to the engine it is freed only inside close, and exactly once by the
\* time its life ends (failed initialization returned, or freeContext done).  The
\* one free outside close is initContextFromInputStream's own, when acquiring
\* the global reference fails, before any loader exists: that struct is never
\* handed to the engine and never closed.
C4_FreedOnce ==
    \A c \in Ctx :
        /\ nfree[c] <= 1
        /\ (nfree[c] = 1) = (heap[c].mem = "freed")
        /\ handed[c] => freedBy[c] \in {"none", "close"}
        /\ freedBy[c] = "close" => nclose[c] = 1
        /\ freedBy[c] = "init" =>
              (~handed[c] /\ nclose[c] = 0 /\ globalRefs[c] = "none")
        /\ (handed[c] /\ pc = "idle" /\ engineCtx[c] # "live") => nfree[c] = 1
        /\ (pc = "ret" /\ cur = c /\ engineResult = NULL) => nfree[c] = 1

C4_Witness ==
    \E c \in Ctx : handed[c] /\ freedBy[c] = "close" /\ nfree[c] = 1 /\ pc = "idle"

\* C5: no read or eof callback runs on a StreamContext after close has run on
\* it: every callback touch is on a live struct that has not been closed.
C5_NoUseAfterClose ==
    /\ \A c \in Ctx : ~usedAfterClose[c]
    /\ (pc = "engine") => (heap[cur].mem = "live" /\ nclose[cur] = 0)
    /\ \A c \in Ctx : nclose[c] >= 1 => ~(pc = "engine" /\ cur = c)

C5_Witness ==
    /\ pc = "ret" /\ engineResult = NULL
    /\ calls >= 2
    /\ nclose[cur] = 1
    /\ ~usedAfterClose[cur]

\* C6: every callback that touches the foreign runtime does so through the
\* binding of the thread it is running on, never through another thread's.
C6_CallbackUsesOwnBinding ==
    lastTouch.cb # "none" => lastTouch.env = lastTouch.thread

\* C7: close restores the calling thread's binding state: it detaches exactly
\* when it attached, a thread bound at entry is bound at return and a thread
\* unbound at entry is unbound at return.
C7_CloseRestoresBinding ==
    /\ lastClose.ctx # NULL =>
          /\ lastClose.detachedHere = lastClose.attachedHere
          /\ lastClose.boundAfter = lastClose.boundBefore
          /\ attached[lastClose.thread] = lastClose.boundBefore
    /\ attached["main"] /\ ~attached["worker"]

C7_Witness ==
    /\ lastClose.ctx # NULL
    /\ lastClose.attachedHere /\ lastClose.detachedHere
    /\ ~lastClose.boundBefore /\ ~attached[lastClose.thread]

\* C8: when g_vm is NULL, when attaching fails, or when the binding query
\* reports an unsupported version, close frees the struct exactly once, performs
\* no DeleteGlobalRef (the reference stays held: leaked) and returns.
C8_NoReleaseWithoutBinding ==
    (lastClose.ctx # NULL /\ lastClose.path \in {"no_vm", "attach_failed", "version"}) =>
        /\ ~lastClose.released
        /\ lastTouch.cb = "none"
        /\ ndelete[lastClose.ctx] = 0
        /\ globalRefs[lastClose.ctx] = "live"
        /\ nfree[lastClose.ctx] = 1
        /\ heap[lastClose.ctx].mem = "freed"
        /\ ~crashed

C8_Witness ==
    /\ lastClose.ctx # NULL /\ lastClose.path = "no_vm"
    /\ g_vm = NULL
    /\ nfree[lastClose.ctx] = 1
    /\ globalRefs[lastClose.ctx] = "live"

\* C9: for every read call that returns, the returned count is at most the
\* requested size and the context's offset after the call is its offset before
\* the call plus exactly the returned count.
C9_ReadCountAndOffset ==
    lastRead.ctx # NULL =>
        /\ lastRead.ret >= 0
        /\ lastRead.ret <= lastRead.size
        /\ lastRead.after = lastRead.before + lastRead.ret
        /\ heap[lastRead.ctx].offset = lastRead.after

C9_Witness ==
    /\ lastRead.ctx # NULL
    /\ lastRead.size = 2 /\ lastRead.ret = 1
    /\ lastRead.before = 1 /\ lastRead.after = 2

\* C10: when the foreign stream's read raises during the read callback, the
\* callback returns 0, leaves the offset unchanged and no fault is pending when
\* it returns.
C10_FaultGivesZero ==
    (lastRead.ctx # NULL /\ lastRead.fault) =>
        /\ lastRead.ret = 0
        /\ lastRead.after = lastRead.before
        /\ heap[lastRead.ctx].offset = lastRead.before
        /\ ~lastRead.pendingAfter
        /\ \A t \in Threads : ~pending[t]

C10_Witness ==
    /\ lastRead.ctx # NULL /\ lastRead.fault
    /\ lastRead.ret = 0
    /\ lastRead.before = 1

\* C11: no foreign fault stays pending across the boundary: whenever the foreign
\* available() or read() call of a read callback, an eof callback or the
\* diagnostic eof probe raised, no exception is pending on that binding when
\* the callback returns.
C11_NoFaultLeftPending ==
    (lastTouch.cb # "none" /\ lastTouch.raised) => ~pending[lastTouch.env]

C13_EntryPointNeverFrees ==
    /\ \A c \in Ctx : handed[c] =>
          /\ nfree[c] = nclose[c]
          /\ ndelete[c] <= nclose[c]
          /\ freedBy[c] \in {"none", "close"}
    /\ (lastRet.path = "engine" /\ lastRet.value # NULL) =>
          /\ heap[lastRet.ctx].mem = "live"
          /\ globalRefs[lastRet.ctx] = "live"
          /\ nfree[lastRet.ctx] = 0 /\ ndelete[lastRet.ctx] = 0
    /\ (lastRet.path = "engine" /\ lastRet.value = NULL) =>
          /\ nfree[lastRet.ctx] = 1
          /\ freedBy[lastRet.ctx] = "close"

C13_Witness ==
    /\ lastRet.path = "engine" /\ lastRet.value = NULL
    /\ freedBy[lastRet.ctx] = "close"
    /\ nfree[lastRet.ctx] = 1 /\ nclose[lastRet.ctx] = 1

\* C14: when malloc of the StreamContext fails or NewGlobalRef for the stream
\* fails, initContextFromInputStream returns 0 without entering the engine
\* initializer, and no struct stays allocated and no global reference stays
\* held for it: every live struct and every held reference belongs to a
\* context that was handed to the engine.
C14_AllocFailureNoLeak ==
    /\ lastRet.path \in {"malloc", "globalref"} =>
          /\ lastRet.fn = "init" /\ lastRet.value = NULL
          /\ ~lastRet.engineCalled
          /\ pc = "idle" /\ cur = NULL
    /\ lastRet.path = "globalref" =>
          /\ heap[lastRet.ctx].mem = "freed"
          /\ globalRefs[lastRet.ctx] = "none"
          /\ ~handed[lastRet.ctx]
          /\ engineCtx[lastRet.ctx] = "none"
    /\ \A c \in Ctx : ~handed[c] => (heap[c].mem # "live" /\ globalRefs[c] = "none")

C14_Witness ==
    /\ lastRet.path = "globalref"
    /\ lastRet.value = NULL
    /\ heap[lastRet.ctx].mem = "freed" /\ nfree[lastRet.ctx] = 1

\* C15: when the asset cannot be opened, initContextFromAsset returns 0 at
\* once: no asset handle and no loader exist for the call, the engine
\* initializer is not entered and no close callback runs.  The engine
\* initializer only ever runs on an asset that was opened.
C15_AssetOpenFailure ==
    /\ lastRet.path = "open_failed" =>
          /\ lastRet.fn = "asset" /\ lastRet.value = NULL
          /\ ~lastRet.engineCalled
          /\ pc = "idle" /\ curAsset = NULL /\ borrowed = 0
          /\ \A a \in Assets : a >= nextAsset =>
                (assetState[a] = "none" /\ assetCloses[a] = 0 /\ assetEngine[a] = "none")
    /\ pc \in {"asset", "asset_ret"} =>
          (curAsset \in Assets /\ assetState[curAsset] # "none")
    /\ \A a \in Assets : assetCloses[a] > 0 => assetState[a] = "closed"

C15_Witness ==
    /\ lastRet.path = "open_failed" /\ ~lastRet.threw
    /\ lastRet.value = NULL
    /\ nextAsset = 1 /\ assetState[1] = "none"
    /\ libState = "loaded"

\* C17: fullTranscribe invokes the engine's full-pipeline call exactly when the
\* handle is non-null and the sample array was acquired; on every path that
\* returns, an acquired array has been released exactly once, with JNI_ABORT
\* (nothing committed back), and an array that was not acquired is not
\* released.
C17_TranscribeReleasesArray ==
    /\ lastRet.fn = "transcribe" =>
          /\ lastFull.fullCalled = (lastFull.handle # NULL /\ lastFull.acquired)
          /\ lastFull.releases = (IF lastFull.acquired THEN 1 ELSE 0)
          /\ lastFull.acquired => lastFull.mode = "JNI_ABORT"
          /\ lastRet.engineCalled = lastFull.fullCalled
    /\ pc = "idle" => borrowed = 0

C17_Witness ==
    /\ lastRet.fn = "transcribe"
    /\ lastFull.handle = NULL /\ lastFull.acquired
    /\ ~lastFull.fullCalled /\ lastFull.releases = 1

\* C16: freeContext(0) is a no-op: the step does not reach the engine's
\* teardown, changes nothing of the native or foreign state (statics, heap,
\* references, bindings, contexts, counters), does not crash, raises nothing
\* and logs no error.
C16_FreeNullIsNoop ==
    [][(lastRet'.fn = "free" /\ lastRet'.ctx = NULL) =>
          /\ ~lastRet'.engineCalled
          /\ ~lastRet'.threw
          /\ lastRet'.log # "error"
          /\ lastClose' = NoClose /\ lastTouch' = NoTouch
          /\ ~crashed'
          /\ UNCHANGED <<statics, memory, jvm, control, counts, assets>>]_vars

C16_Witness ==
    /\ lastRet.fn = "free" /\ lastRet.ctx = NULL
    /\ lastRet.log = "warn"
    /\ \E c \in Ctx : engineCtx[c] = "live" /\ heap[c].mem = "live"

\* C18, as stated: a handed StreamContext holds a non-null reference until
\* close runs on it, and the close that runs on it sets the reference to null:
\* once close has run, exactly one close call has nulled it.
C18_Original ==
    \A c \in Ctx : handed[c] =>
        /\ nclose[c] = 0 =>
              (heap[c].mem = "live" /\ heap[c].input_stream # NULL
               /\ globalRefs[c] = "live")
        /\ nclose[c] >= 1 => ndelete[c] = 1

\* C18, amended: a handed StreamContext holds a non-null, live reference from
\* its creation until close runs on it; the reference is released and set to
\* null only inside close, by at most one close call: the close that runs on
\* the context nulls it exactly when it obtained a valid binding for its
\* thread, and otherwise frees the struct with the reference still set.
C18_RefHeldUntilClose ==
    \A c \in Ctx : handed[c] =>
        /\ nclose[c] = 0 =>
              /\ heap[c].mem = "live" /\ heap[c].input_stream # NULL
              /\ globalRefs[c] = "live" /\ ndelete[c] = 0
        /\ ndelete[c] <= nclose[c] /\ ndelete[c] <= 1
        /\ nclose[c] = 1 =>
              /\ ndelete[c] = (IF HadBinding(closePath[c]) THEN 1 ELSE 0)
              /\ HadBinding(closePath[c]) => heap[c].input_stream = NULL
              /\ ~HadBinding(closePath[c]) =>
                    (heap[c].input_stream # NULL /\ globalRefs[c] = "live")
        /\ (lastClose.ctx = c) => (lastClose.released = HadBinding(lastClose.path))

C18_Witness ==
    \E c \in Ctx :
        /\ handed[c] /\ nclose[c] = 1 /\ ndelete[c] = 1
        /\ closePath[c] = "attached_here"
        /\ heap[c].input_stream = NULL /\ globalRefs[c] = "deleted"

\* C19: the adapter keeps no end-of-stream latch: every read callback with a
\* non-zero size whose transient buffer was allocated calls the foreign read,
\* also right after an eof (or the probe) that returned true or a read that
\* returned 0; when the stream hands over n bytes (0 < n <= size) with no
\* exception in sight it delivers those n bytes, and it returns 0 on n = 0 and
\* on n = -1; and the construction ends with a handle or with close invoked
\* exactly once.
C19_NoEndLatch ==
    /\ (lastRead.ctx # NULL /\ lastRead.size > 0 /\ lastRead.alloc) => lastRead.called
    /\ (lastRead.called /\ lastRead.clean /\ lastRead.n <= lastRead.size) =>
             (lastRead.ret = lastRead.n /\ lastRead.after = lastRead.before + lastRead.n)
    /\ (lastRead.called /\ lastRead.n <= 0) => lastRead.ret = 0
    /\ pc = "ret" => (engineResult # NULL \/ nclose[cur] = 1)

C19_Witness ==
    /\ lastRead.ctx # NULL /\ calls = 1
    /\ lastRead.afterEnd /\ lastRead.clean
    /\ lastRead.called /\ lastRead.n = 2 /\ lastRead.ret = 2

\* C20: the bytes delivered to the engine are a gap-free prefix of the foreign
\* stream: while the engine pulls, the context's cumulative offset (the number
\* of bytes returned so far) equals the number of bytes the foreign stream has
\* handed out.
C20_GapFreePrefix ==
    (pc = "engine" /\ ~crashed) => heap[cur].offset = streamPos

C22_TransientBufferReleased ==
    ~crashed =>
        /\ liveBufs = 0
        /\ lastRead.ctx # NULL =>
              lastRead.released = (IF lastRead.alloc THEN 1 ELSE 0)

C22_Witness ==
    /\ lastRead.ctx # NULL /\ calls = MaxCalls
    /\ lastRead.alloc /\ lastRead.fault /\ lastRead.ret = 0
    /\ lastRead.released = 1 /\ liveBufs = 0

====
